---- MODULE Spec2Model ----
(***************************************************************************)
(* A model of src/src/calculateTrustScoreForDomain.js: the TrustScore      *)
(* class (find business unit -> business info -> sequential review pages   *)
(* -> calculateScore) and the Lambda handler that drives it.               *)
(*                                                                         *)
(* JavaScript numbers are IEEE-754 binary64 values.  calculateScore is     *)
(* modelled operation by operation on binary64 (round to nearest, ties to  *)
(* even), because its result is rounded to one decimal and a last-bit      *)
(* difference of the mean decides a rounding tie.  TLC's integers are 32   *)
(* bits wide, so significands are kept as multi-limb naturals.             *)
(***************************************************************************)
EXTENDS Integers, Sequences, FiniteSets, TLC

(***************************************************************************)
(* Natural numbers of any size: little-endian sequences of limbs in        *)
(* 0..Base-1 with no leading zero limb; <<>> is zero.                      *)
(***************************************************************************)
Base == 2^15

RECURSIVE BTrim(_)
BTrim(a) ==
  IF a = <<>> THEN <<>>
  ELSE IF a[Len(a)] = 0 THEN BTrim(SubSeq(a, 1, Len(a) - 1)) ELSE a

RECURSIVE BFromInt(_)
BFromInt(n) == IF n = 0 THEN <<>> ELSE <<n % Base>> \o BFromInt(n \div Base)

RECURSIVE BAddC(_, _, _)
BAddC(a, b, c) ==
  IF a = <<>> /\ b = <<>> THEN (IF c = 0 THEN <<>> ELSE <<c>>)
  ELSE LET x == IF a = <<>> THEN 0 ELSE Head(a)
           y == IF b = <<>> THEN 0 ELSE Head(b)
           s == x + y + c
       IN  <<s % Base>> \o BAddC(IF a = <<>> THEN <<>> ELSE Tail(a),
                                 IF b = <<>> THEN <<>> ELSE Tail(b),
                                 s \div Base)

BAdd(a, b) == BAddC(a, b, 0)

\* a - b for a >= b
RECURSIVE BSubB(_, _, _)
BSubB(a, b, br) ==
  IF a = <<>> THEN <<>>
  ELSE LET y == IF b = <<>> THEN 0 ELSE Head(b)
           d == Head(a) - y - br
       IN  <<IF d < 0 THEN d + Base ELSE d>>
           \o BSubB(Tail(a), IF b = <<>> THEN <<>> ELSE Tail(b),
                    IF d < 0 THEN 1 ELSE 0)

BSub(a, b) == BTrim(BSubB(a, b, 0))

\* -1, 0 or 1 as a < b, a = b, a > b
RECURSIVE BCmp(_, _)
BCmp(a, b) ==
  IF Len(a) # Len(b) THEN (IF Len(a) < Len(b) THEN -1 ELSE 1)
  ELSE IF a = <<>> THEN 0
  ELSE LET n == Len(a)
       IN  IF a[n] # b[n] THEN (IF a[n] < b[n] THEN -1 ELSE 1)
           ELSE BCmp(SubSeq(a, 1, n - 1), SubSeq(b, 1, n - 1))

\* a * k + c for one limb k and a carry c
RECURSIVE BMulS(_, _, _)
BMulS(a, k, c) ==
  IF a = <<>> THEN (IF c = 0 THEN <<>> ELSE <<c>>)
  ELSE LET p == Head(a) * k + c
       IN  <<p % Base>> \o BMulS(Tail(a), k, p \div Base)

BMulSmall(a, k) == BTrim(BMulS(a, k, 0))

RECURSIVE BMul(_, _)
BMul(a, b) ==
  IF b = <<>> \/ a = <<>> THEN <<>>
  ELSE LET hi == BMul(a, Tail(b))
       IN  BAdd(BMulSmall(a, Head(b)), IF hi = <<>> THEN <<>> ELSE <<0>> \o hi)

\* quotient and remainder of a by one limb d > 0
RECURSIVE BDivS(_, _)
BDivS(a, d) ==
  IF a = <<>> THEN [q |-> <<>>, r |-> 0]
  ELSE LET hi  == BDivS(Tail(a), d)
           cur == hi.r * Base + Head(a)
       IN  [q |-> <<cur \div d>> \o hi.q, r |-> cur % d]

RECURSIVE BZeros(_)
BZeros(n) == IF n = 0 THEN <<>> ELSE <<0>> \o BZeros(n - 1)

\* a * 2^k and floor(a / 2^k)
BShl(a, k) ==
  IF a = <<>> THEN <<>> ELSE BZeros(k \div 15) \o BMulSmall(a, 2^(k % 15))

BShr(a, k) ==
  LET w == k \div 15
  IN  IF w >= Len(a) THEN <<>>
      ELSE BTrim(BDivS(SubSeq(a, w + 1, Len(a)), 2^(k % 15)).q)

\* quotient and remainder of a by b > 0: limb division when b is one limb,
\* schoolbook long division otherwise (each quotient limb found by bisection)
RECURSIVE BDigit(_, _, _, _)
BDigit(cur, b, lo, hi) ==
  IF lo = hi THEN lo
  ELSE LET mid == (lo + hi + 1) \div 2
       IN  IF BCmp(BMulSmall(b, mid), cur) <= 0
           THEN BDigit(cur, b, mid, hi)
           ELSE BDigit(cur, b, lo, mid - 1)

RECURSIVE BDivL(_, _)
BDivL(a, b) ==
  IF a = <<>> THEN [q |-> <<>>, r |-> <<>>]
  ELSE LET hi  == BDivL(Tail(a), b)
           cur == BTrim(<<Head(a)>> \o hi.r)
           d   == BDigit(cur, b, 0, Base - 1)
       IN  [q |-> <<d>> \o hi.q, r |-> BSub(cur, BMulSmall(b, d))]

BDivMod(a, b) ==
  IF Len(b) = 1
  THEN LET d == BDivS(a, b[1]) IN [q |-> BTrim(d.q), r |-> BFromInt(d.r)]
  ELSE LET d == BDivL(a, b) IN [q |-> BTrim(d.q), r |-> d.r]

RECURSIVE IntBitLen(_)
IntBitLen(n) == IF n = 0 THEN 0 ELSE 1 + IntBitLen(n \div 2)

BitLen(a) == IF a = <<>> THEN 0 ELSE 15 * (Len(a) - 1) + IntBitLen(a[Len(a)])

RECURSIVE IntTz(_)
IntTz(n) == IF n % 2 = 1 THEN 0 ELSE 1 + IntTz(n \div 2)

\* number of trailing zero bits of a > 0
RECURSIVE BTz(_)
BTz(a) == IF a[1] = 0 THEN 15 + BTz(Tail(a)) ELSE IntTz(a[1])

BIsOdd(a) == a # <<>> /\ a[1] % 2 = 1

(***************************************************************************)
(* binary64.  A value is NaN, +Infinity, or the non-negative number        *)
(* m * 2^e with m odd (or m = 0, e = 0), so equal numbers are equal        *)
(* records.  Every number calculateScore meets is non-negative (stars and  *)
(* months are >= 0 and 1 - age/36 is taken only for age < 36) and lies     *)
(* far inside the normal range, so sign, overflow and subnormals are not   *)
(* represented.                                                            *)
(***************************************************************************)
NaN == [k |-> "nan", m |-> <<>>, e |-> 0]
Infinity == [k |-> "inf", m |-> <<>>, e |-> 0]

FNorm(M, e) ==
  IF M = <<>> THEN [k |-> "num", m |-> <<>>, e |-> 0]
  ELSE LET tz == BTz(M) IN [k |-> "num", m |-> BShr(M, tz), e |-> e + tz]

\* the 53-bit significand: round M * 2^e to nearest, ties to even
FRound(M, e) ==
  LET n == BitLen(M)
  IN  IF n <= 52 + 1 THEN FNorm(M, e)
      ELSE LET sh   == n - (52 + 1)
               q    == BShr(M, sh)
               rem  == BSub(M, BShl(q, sh))
               c    == BCmp(rem, BShl(<<1>>, sh - 1))
               up   == c = 1 \/ (c = 0 /\ BIsOdd(q))
           IN  FNorm(IF up THEN BAdd(q, <<1>>) ELSE q, e + sh)

\* the Number of an integer literal or integer-valued field
F(n) == FNorm(BFromInt(n), 0)

IsZero(x) == x.k = "num" /\ x.m = <<>>

\* -1, 0, 1 for two numbers (neither NaN nor Infinity)
FCmp(x, y) ==
  LET e == IF x.e < y.e THEN x.e ELSE y.e
  IN  BCmp(BShl(x.m, x.e - e), BShl(y.m, y.e - e))

\* x > y and x >= y of JavaScript: false when either side is NaN
FGt(x, y) ==
  IF x.k = "nan" \/ y.k = "nan" THEN FALSE
  ELSE IF x.k = "inf" THEN y.k # "inf"
  ELSE IF y.k = "inf" THEN FALSE
  ELSE FCmp(x, y) = 1

FGe(x, y) ==
  IF x.k = "nan" \/ y.k = "nan" THEN FALSE
  ELSE IF x.k = "inf" THEN TRUE
  ELSE IF y.k = "inf" THEN FALSE
  ELSE FCmp(x, y) >= 0

FAdd(x, y) ==
  IF x.k = "nan" \/ y.k = "nan" THEN NaN
  ELSE IF x.k = "inf" \/ y.k = "inf" THEN Infinity
  ELSE LET e == IF x.e < y.e THEN x.e ELSE y.e
       IN  FRound(BAdd(BShl(x.m, x.e - e), BShl(y.m, y.e - e)), e)

\* x - y for numbers x >= y (the only subtraction is 1 - age/36, age < 36)
FSub(x, y) ==
  IF x.k = "nan" \/ y.k = "nan" THEN NaN
  ELSE IF x.k = "inf" THEN (IF y.k = "inf" THEN NaN ELSE Infinity)
  ELSE LET e == IF x.e < y.e THEN x.e ELSE y.e
       IN  FRound(BSub(BShl(x.m, x.e - e), BShl(y.m, y.e - e)), e)

FMul(x, y) ==
  IF x.k = "nan" \/ y.k = "nan" THEN NaN
  ELSE IF x.k = "inf" \/ y.k = "inf"
       THEN (IF IsZero(x) \/ IsZero(y) THEN NaN ELSE Infinity)
  ELSE FRound(BMul(x.m, y.m), x.e + y.e)

FDiv(x, y) ==
  IF x.k = "nan" \/ y.k = "nan" THEN NaN
  ELSE IF x.k = "inf" THEN (IF y.k = "inf" THEN NaN ELSE Infinity)
  ELSE IF y.k = "inf" THEN F(0)
  ELSE IF IsZero(y) THEN (IF IsZero(x) THEN NaN ELSE Infinity)
  ELSE IF IsZero(x) THEN F(0)
  ELSE LET d  == (52 + 4) + BitLen(y.m) - BitLen(x.m)
           sh == IF d < 0 THEN 0 ELSE d
           qr == BDivMod(BShl(x.m, sh), y.m)
           Q  == BAdd(BShl(qr.q, 1), IF qr.r = <<>> THEN <<>> ELSE <<1>>)
       IN  FRound(Q, x.e - y.e - sh - 1)

\* Math.round: the nearest integer, a tie going up
MathRound(x) ==
  IF x.k # "num" \/ x.e >= 0 THEN x
  ELSE FNorm(BShr(BAdd(x.m, BShl(<<1>>, (-x.e) - 1)), -x.e), 0)

\* Math.ceil
MathCeil(x) ==
  IF x.k # "num" \/ x.e >= 0 THEN x
  ELSE FNorm(BAdd(BShr(x.m, -x.e), <<1>>), 0)

\* the Int of an integer-valued number below 2^30
RECURSIVE BToInt(_)
BToInt(a) == IF a = <<>> THEN 0 ELSE Head(a) + Base * BToInt(Tail(a))

ToInt(x) == BToInt(BShl(x.m, x.e))

(***************************************************************************)
(* The TrustScore class: its constants and its pure methods.               *)
(***************************************************************************)
MAX_RESPONSE_SIZE == 4000000
MAX_REVIEW_AMOUNT == 300
MAX_REVIEW_AGE == 36
MAX_REVIEW_STARS == 5

\* the month difference without the + 1, and without the floor at 0
getMonthsInclusive(date, today) ==
  LET m0 == (today.year - date.year) * 12
      m1 == m0 - date.month
      m2 == m1 + today.month
  IN  IF m2 <= 0 THEN 0 ELSE m2

getMonthsUnclamped(date, today) ==
  ((today.year - date.year) * 12 - (date.month + 1)) + today.month

\* getMonthsSinceReviewDate: date and today are the calendar fields that
\* getFullYear() and getMonth() (0..11) read
getMonthsSinceReviewDate(date, today) ==
  LET m0 == (today.year - date.year) * 12
      m1 == m0 - (date.month + 1)
      m2 == m1 + today.month
  IN  IF m2 <= 0 THEN 0 ELSE m2

\* the body of calculateScore's loop for one review.  reviewAge is the
\* review's age as a Number
reviewAge(review, today) ==
  F(getMonthsSinceReviewDate(review.createdAt, today))

\* ratingScore as first assigned: star share, age modifier and age score
rawRatingScore(review, today) ==
  LET reviewStars == F(review.stars)
      age         == reviewAge(review, today)
      ageModifier == IF FGe(age, F(MAX_REVIEW_AGE)) THEN F(0)
                     ELSE FSub(F(1), FDiv(age, F(MAX_REVIEW_AGE)))
      ageScore    == FDiv(FDiv(reviewStars, FMul(age, F(2))),
                          F(MAX_REVIEW_STARS))
  IN  FAdd(FAdd(FDiv(reviewStars, F(MAX_REVIEW_STARS)), ageModifier), ageScore)

\* the rating score left as first assigned
ratingScoreUnclamped(review, today) == rawRatingScore(review, today)

\* ratingScore after ratingScore = (ratingScore > 2 ? 2 : ratingScore)
ratingScore(review, today) ==
  LET raw == rawRatingScore(review, today)
  IN  IF FGt(raw, F(2)) THEN F(2) ELSE raw

\* reviewStars after the discount of reviews older than MAX_REVIEW_AGE
effectiveStars(review, today) ==
  LET reviewStars == F(review.stars)
      age         == reviewAge(review, today)
  IN  IF FGt(age, F(MAX_REVIEW_AGE))
      THEN FMul(reviewStars, FDiv(F(MAX_REVIEW_AGE), age))
      ELSE reviewStars

\* the review's addend to totalTrustScore
reviewScore(review, today) ==
  LET discounted == effectiveStars(review, today)
      clamped    == ratingScore(review, today)
  IN  FAdd(discounted, FDiv(FMul(discounted, clamped), F(2)))

\* the loop of calculateScore from index on: totalTrustScore at its end
RECURSIVE scoreLoop(_, _, _, _)
scoreLoop(reviews, index, totalTrustScore, today) ==
  IF index > Len(reviews) THEN totalTrustScore
  ELSE scoreLoop(reviews, index + 1,
                 FAdd(totalTrustScore, reviewScore(reviews[index], today)),
                 today)

calculateScore(reviews, today) ==
  LET totalTrustScore == scoreLoop(reviews, 1, F(0), today)
      totalReviews    == F(Len(reviews))
  IN  FDiv(MathRound(FMul(FDiv(totalTrustScore, totalReviews), F(10))), F(10))

\* pageCount rounding down, and pageCount without the cap
pageCountFloor(totalReviews) ==
  IF totalReviews > MAX_REVIEW_AMOUNT
  THEN ToInt(FDiv(F(MAX_REVIEW_AMOUNT), F(100)))
  ELSE totalReviews \div 100

pageCountUncapped(totalReviews) ==
  ToInt(MathCeil(FDiv(F(totalReviews), F(100))))

\* getMaximumBusinessReviews: the page count
pageCount(totalReviews) ==
  IF totalReviews > MAX_REVIEW_AMOUNT
  THEN ToInt(FDiv(F(MAX_REVIEW_AMOUNT), F(100)))
  ELSE ToInt(MathCeil(FDiv(F(totalReviews), F(100))))

(***************************************************************************)
(* The state.  An invocation is one call of exports.handler.               *)
(***************************************************************************)
VARIABLES
  now,        \* the calendar fields of new Date(): [year, month]
  this,       \* invocation -> the TrustScore object its handler created
  business,   \* TrustScore object -> its this.business (a JavaScript object)
  promise,    \* invocation -> state of the promise getTrustScore returned
  domain,     \* invocation -> event.params.domain
  page,       \* invocation -> page argument of the running runReviewPageRequests
  pages,      \* invocation -> pages argument of runReviewPageRequests
  inflight,   \* the https requests sent and not yet completed
  sent,       \* history: invocation -> the requests it handed to https.request
  replies,    \* history: invocation -> the completions the transport delivered
  calls,      \* invocation -> the (error, result) pairs passed to callback
  scoreIn,    \* the review sequence given to calculateScore called on its own
  scoreOut,   \* <<>> or <<its result>>
  dateIn,     \* <<>> or <<the date given to getMonthsSinceReviewDate on its own>>
  monthsOut,  \* <<>> or <<its result>>
  stream,     \* sendTrustpilotRequest on its own: where its request stands
  responseBody,  \* the response handler's body: the text received, its length
  responseTooLarge,  \* the response handler's flag
  received,   \* history: the chunks the 'data' events delivered
  settles     \* history: the resolve and reject calls of sendTrustpilotRequest

monthsVars == <<dateIn, monthsOut>>
sendVars == <<stream, responseBody, responseTooLarge, received, settles>>

vars == <<now, this, business, promise, domain, page, pages, inflight, sent,
          replies, calls, scoreIn, scoreOut, monthsVars, sendVars>>

\* the value undefined, which has no property to read
undefined == [undefined |-> TRUE]

\* calculateScore reads reviews[index].stars: a TypeError when an element is
\* undefined
scoreThrows(reviews) ==
  \E index \in 1..Len(reviews) : "stars" \notin DOMAIN reviews[index]

\* a JavaScript object is a function from its own property names; obj.key = val
Put(obj, key, val) ==
  [k \in DOMAIN obj \cup {key} |-> IF k = key THEN val ELSE obj[k]]

EmptyObject == [k \in {} |-> 0]

\* one TrustScore object made when the module loads and used by every call
sharedTrustScore(i) == "module"

\* new TrustScore() in the handler: a fresh object for each invocation
newTrustScore(i) == i

\* the options handed to sendTrustpilotRequest, with the invocation whose
\* resolve and reject it carries
findRequest(i, name) ==
  [inv |-> i, endpoint |-> "FIND_BUSINESS_UNIT_ID", name |-> name,
   businessUnitId |-> "", perPage |-> 0, page |-> 0]

infoRequest(i, id) ==
  [inv |-> i, endpoint |-> "BUSINESS_INFO", name |-> "",
   businessUnitId |-> id, perPage |-> 0, page |-> 0]

reviewsRequest(i, id, p) ==
  [inv |-> i, endpoint |-> "BUSINESS_GET_REVIEWS", name |-> "",
   businessUnitId |-> id, perPage |-> 100, page |-> p]

\* the new page put in front, and the page after next
prependReviews(reviews, data) == data.reviews \o reviews

nextPageSkip(p) == p + 2

\* runReviewPageRequests: the accumulation, and the test for one more page
\* Array.prototype.concat appends an argument that is not an array as one
\* element: a page without reviews adds the value undefined
concatReviews(reviews, data) ==
  IF "reviews" \in DOMAIN data THEN reviews \o data.reviews
  ELSE Append(reviews, undefined)

\* the loop going on until the page number meets the page count
morePagesNotEqual(p, n) == p # n

morePages(p, n) == p < n

nextPage(p) == p + 1

\* the response with the domain in the place of the id
trustScoreResponseSwapped(b, d, today) ==
  [id |-> d, domain |-> b.id, trustScore |-> calculateScore(b.reviews, today)]

\* getTrustScore: the response it resolves with
trustScoreResponse(b, d, today) ==
  [id |-> b.id, domain |-> d, trustScore |-> calculateScore(b.reviews, today)]

\* the completion of a request as the transport reports it: reject(error) or
\* resolve(body)
Rejection(r, error) == [request |-> r, error |-> <<error>>, body |-> <<>>]
Resolution(r, body) == [request |-> r, error |-> <<>>, body |-> <<body>>]

\* https.request(options, ...) ; request.end()
Send(r) ==
  /\ inflight' = inflight \cup {r}
  /\ sent' = [sent EXCEPT ![r.inv] = Append(@, r)]

\* the request is replaced in flight by the one its completion handler sends
Replace(r, next) ==
  /\ inflight' = (inflight \ {r}) \cup {next}
  /\ sent' = [sent EXCEPT ![next.inv] = Append(@, next)]

\* the reject chain replacing the error by one of its own
CallbackWrapped(i, error) ==
  /\ calls' = [calls EXCEPT ![i] =
                 Append(@, [error |-> <<"Internal error">>, result |-> <<>>])]
  /\ promise' = [promise EXCEPT ![i] = "rejected"]

\* callback(error, null) at the end of the reject chain
CallbackError(i, error) ==
  /\ calls' = [calls EXCEPT ![i] = Append(@, [error |-> <<error>>, result |-> <<>>])]
  /\ promise' = [promise EXCEPT ![i] = "rejected"]

(***************************************************************************)
(* The operations.  A promise callback runs as a microtask of the event    *)
(* that settled the promise, so everything between the arrival of one      *)
(* transport completion and the next request (or the callback) is one      *)
(* step.                                                                   *)
(***************************************************************************)

\* exports.handler: new TrustScore(), getTrustScore(domain) down to the
\* find request
handler(i, d) ==
  /\ promise[i] = "idle"
  /\ LET o == newTrustScore(i)
     IN  /\ this' = [this EXCEPT ![i] = o]
         /\ business' = Put(business, o, EmptyObject)
         /\ Send(findRequest(i, d))
  /\ domain' = [domain EXCEPT ![i] = d]
  /\ promise' = [promise EXCEPT ![i] = "pending"]
  /\ UNCHANGED <<now, page, pages, replies, calls, scoreIn, scoreOut, monthsVars, sendVars>>

\* the find request resolves: getBusinessUnitInfo stores the id and sends the
\* business-info request
findResolved(i, body) ==
  \E r \in inflight :
    /\ r.inv = i /\ r.endpoint = "FIND_BUSINESS_UNIT_ID"
    /\ LET o == this[i]
           b == Put(business[o], "id", body.id)
       IN  /\ business' = [business EXCEPT ![o] = b]
           /\ Replace(r, infoRequest(i, b.id))
    /\ replies' = [replies EXCEPT ![i] = Append(@, Resolution(r, body))]
    /\ UNCHANGED <<now, this, promise, domain, page, pages, calls, scoreIn,
                   scoreOut, monthsVars, sendVars>>

\* the find request rejects: getBusinessUnitInfo, prepareTrustScoreData and
\* getTrustScore pass the error on
findRejected(i, error) ==
  \E r \in inflight :
    /\ r.inv = i /\ r.endpoint = "FIND_BUSINESS_UNIT_ID"
    /\ inflight' = inflight \ {r}
    /\ CallbackError(i, error)
    /\ replies' = [replies EXCEPT ![i] = Append(@, Rejection(r, error))]
    /\ UNCHANGED <<now, this, business, domain, page, pages, sent, scoreIn,
                   scoreOut, monthsVars, sendVars>>

\* the business-info request resolves: prepareTrustScoreData stores the total,
\* getMaximumBusinessReviews computes pages, resets reviews and asks for page 1
infoResolved(i, body) ==
  \E r \in inflight :
    /\ r.inv = i /\ r.endpoint = "BUSINESS_INFO"
    /\ IF "numberOfReviews" \in DOMAIN body
       THEN LET o  == this[i]
                b1 == Put(business[o], "totalReviews", body.numberOfReviews.total)
                b2 == Put(b1, "reviews", <<>>)
            IN  /\ business' = [business EXCEPT ![o] = b2]
                /\ page' = [page EXCEPT ![i] = 1]
                /\ pages' = [pages EXCEPT ![i] = pageCount(b1.totalReviews)]
                /\ Replace(r, reviewsRequest(i, b2.id, 1))
       ELSE \* responseData.numberOfReviews.total throws in the then callback:
            \* neither resolve nor reject of prepareTrustScoreData is called
            /\ inflight' = inflight \ {r}
            /\ UNCHANGED <<business, page, pages, sent>>
    /\ replies' = [replies EXCEPT ![i] = Append(@, Resolution(r, body))]
    /\ UNCHANGED <<now, this, promise, domain, calls, scoreIn, scoreOut, monthsVars, sendVars>>

infoRejected(i, error) ==
  \E r \in inflight :
    /\ r.inv = i /\ r.endpoint = "BUSINESS_INFO"
    /\ inflight' = inflight \ {r}
    /\ CallbackError(i, error)
    /\ replies' = [replies EXCEPT ![i] = Append(@, Rejection(r, error))]
    /\ UNCHANGED <<now, this, business, domain, page, pages, sent, scoreIn,
                   scoreOut, monthsVars, sendVars>>

\* a review-page request resolves: runReviewPageRequests appends the page and
\* either asks for the next page or resolves, upon which getTrustScore
\* computes the score and the handler calls back
pageResolved(i, data) ==
  \E r \in inflight :
    /\ r.inv = i /\ r.endpoint = "BUSINESS_GET_REVIEWS"
    /\ LET o == this[i]
           b == Put(business[o], "reviews", concatReviews(business[o].reviews, data))
       IN  /\ business' = [business EXCEPT ![o] = b]
           /\ IF morePages(page[i], pages[i])
              THEN /\ page' = [page EXCEPT ![i] = nextPage(page[i])]
                   /\ Replace(r, reviewsRequest(i, b.id, nextPage(page[i])))
                   /\ UNCHANGED <<promise, calls>>
              ELSE /\ inflight' = inflight \ {r}
                   /\ IF scoreThrows(b.reviews)
                      THEN \* calculateScore throws in getTrustScore's then
                           \* callback: neither resolve nor reject is called
                           UNCHANGED <<promise, calls>>
                      ELSE /\ calls' = [calls EXCEPT ![i] = Append(@,
                                [error |-> <<>>,
                                 result |-> <<trustScoreResponse(b, domain[i], now)>>])]
                           /\ promise' = [promise EXCEPT ![i] = "resolved"]
                   /\ UNCHANGED <<page, sent>>
    /\ replies' = [replies EXCEPT ![i] = Append(@, Resolution(r, data))]
    /\ UNCHANGED <<now, this, domain, pages, scoreIn, scoreOut, monthsVars, sendVars>>

\* a failed page answered with the score of the pages fetched so far
pageRejectedPartial(i, error) ==
  \E r \in inflight :
    /\ r.inv = i /\ r.endpoint = "BUSINESS_GET_REVIEWS"
    /\ inflight' = inflight \ {r}
    /\ calls' = [calls EXCEPT ![i] = Append(@,
         [error |-> <<>>,
          result |-> <<trustScoreResponse(business[this[i]], domain[i], now)>>])]
    /\ promise' = [promise EXCEPT ![i] = "resolved"]
    /\ replies' = [replies EXCEPT ![i] = Append(@, Rejection(r, error))]
    /\ UNCHANGED <<now, this, business, domain, page, pages, sent, scoreIn,
                   scoreOut, monthsVars, sendVars>>

pageRejected(i, error) ==
  \E r \in inflight :
    /\ r.inv = i /\ r.endpoint = "BUSINESS_GET_REVIEWS"
    /\ inflight' = inflight \ {r}
    /\ CallbackError(i, error)
    /\ replies' = [replies EXCEPT ![i] = Append(@, Rejection(r, error))]
    /\ UNCHANGED <<now, this, business, domain, page, pages, sent, scoreIn,
                   scoreOut, monthsVars, sendVars>>

(***************************************************************************)
(* The environment: what callers pass and what the transport can deliver.  *)
(***************************************************************************)
MaxPageLen == 1
MaxReviews == 3

Domains == {"shop.example", "bank.example"}
Ids == {"bu-1", "bu-2"}
Totals == {0, 50, 100, 101, 250, 300, 301, 10000}
Errors == {"Request entity too large.", "socket hang up"}
Todays == {[year |-> 2016, month |-> 5]}

\* reviews 2 and 72 months old in June 2016
PageReviews ==
  {[stars |-> 5, createdAt |-> [year |-> 2016, month |-> 2]],
   [stars |-> 2, createdAt |-> [year |-> 2010, month |-> 4]]}

\* reviews 18, 24, 36 and 72 months old in June 2016
ScoreStars == {3, 4}
ScoreDates ==
  {[year |-> 2014, month |-> 10], [year |-> 2014, month |-> 4],
   [year |-> 2013, month |-> 4], [year |-> 2010, month |-> 4]}
ScoreReviews == {[stars |-> st, createdAt |-> c] : st \in ScoreStars, c \in ScoreDates}

RECURSIVE SeqsUpTo(_, _)
SeqsUpTo(S, n) ==
  IF n = 0 THEN {<<>>}
  ELSE LET shorter == SeqsUpTo(S, n - 1)
       IN  shorter \cup {Append(q, x) : q \in shorter, x \in S}

FindBodies == {[id |-> id] : id \in Ids}
InfoBodies == {[numberOfReviews |-> [total |-> t]] : t \in Totals}
PageBodies == {[reviews |-> q] : q \in SeqsUpTo(PageReviews, MaxPageLen)}

\* no handler has been called
Idle(invocations) ==
  /\ this = [i \in invocations |-> "none"]
  /\ business = EmptyObject
  /\ promise = [i \in invocations |-> "idle"]
  /\ domain = [i \in invocations |-> ""]
  /\ page = [i \in invocations |-> 0]
  /\ pages = [i \in invocations |-> 0]
  /\ inflight = {}
  /\ sent = [i \in invocations |-> <<>>]
  /\ replies = [i \in invocations |-> <<>>]
  /\ calls = [i \in invocations |-> <<>>]

\* getMonthsSinceReviewDate is not called on its own
NoMonthsCall == dateIn = <<>> /\ monthsOut = <<>>

\* sendTrustpilotRequest is not called on its own
NoRequest ==
  /\ stream = "none"
  /\ responseBody = [text |-> <<>>, length |-> 0]
  /\ responseTooLarge = FALSE
  /\ received = <<>>
  /\ settles = <<>>

InitFor(invocations, inputs) ==
  /\ now \in Todays
  /\ Idle(invocations)
  /\ scoreIn \in inputs
  /\ scoreOut = <<>>
  /\ NoMonthsCall
  /\ NoRequest

(***************************************************************************)
(* Spec: one invocation of the handler, running alone.                     *)
(***************************************************************************)
Init == InitFor({"a"}, {<<>>})

Next ==
  \/ \E i \in DOMAIN promise, d \in Domains : handler(i, d)
  \/ \E i \in DOMAIN promise, body \in FindBodies : findResolved(i, body)
  \/ \E i \in DOMAIN promise, e \in Errors : findRejected(i, e)
  \/ \E i \in DOMAIN promise, body \in InfoBodies : infoResolved(i, body)
  \/ \E i \in DOMAIN promise, e \in Errors : infoRejected(i, e)
  \/ \E i \in DOMAIN promise, data \in PageBodies : pageResolved(i, data)
  \/ \E i \in DOMAIN promise, e \in Errors : pageRejected(i, e)

Spec == Init /\ [][Next]_vars

(***************************************************************************)
(* SpecConc: two invocations of the handler whose transport completions    *)
(* interleave in every order.  Each invocation is for its own domain; a   *)
(* page holds copies of one review, so that the two runs can differ in     *)
(* their ids, their page counts and their scores.                          *)
(***************************************************************************)
ConcTotals == {50, 101}
ConcErrors == {"socket hang up"}
ConcInfoBodies == {[numberOfReviews |-> [total |-> t]] : t \in ConcTotals}
ConcPageBodies ==
  {data \in PageBodies :
     \A j, k \in DOMAIN data.reviews : data.reviews[j] = data.reviews[k]}

ConcDomain == [a |-> "shop.example", b |-> "bank.example"]

InitConc == InitFor(DOMAIN ConcDomain, {<<>>})

NextConc ==
  \/ \E i \in DOMAIN promise : handler(i, ConcDomain[i])
  \/ \E i \in DOMAIN promise, body \in FindBodies : findResolved(i, body)
  \/ \E i \in DOMAIN promise, e \in ConcErrors : findRejected(i, e)
  \/ \E i \in DOMAIN promise, body \in ConcInfoBodies : infoResolved(i, body)
  \/ \E i \in DOMAIN promise, e \in ConcErrors : infoRejected(i, e)
  \/ \E i \in DOMAIN promise, data \in ConcPageBodies : pageResolved(i, data)
  \/ \E i \in DOMAIN promise, e \in ConcErrors : pageRejected(i, e)

SpecConc == InitConc /\ [][NextConc]_vars

(***************************************************************************)
(* SpecScore: calculateScore called on its own, on review sequences drawn  *)
(* from ScoreReviews.                                                      *)
(***************************************************************************)
InitScore == InitFor({}, SeqsUpTo(ScoreReviews, MaxReviews))

score ==
  /\ scoreOut = <<>>
  /\ scoreOut' = <<calculateScore(scoreIn, now)>>
  /\ UNCHANGED <<now, this, business, promise, domain, page, pages, inflight,
                 sent, replies, calls, scoreIn, monthsVars, sendVars>>

NextScore == score

SpecScore == InitScore /\ [][NextScore]_vars

(***************************************************************************)
(* SpecReview: calculateScore called on its own, on short sequences of     *)
(* reviews with every star value and ages from 0 months to 10 years.       *)
(***************************************************************************)
MaxSeq == 1

\* dates 0, 1, 2, 3, 6, 12, 18, 24, 35, 36, 37, 48, 72 and 120 months old in
\* June 2016
ReviewStars == 0..MAX_REVIEW_STARS
ReviewDates ==
  {[year |-> 2016, month |-> 5], [year |-> 2016, month |-> 3],
   [year |-> 2016, month |-> 2], [year |-> 2016, month |-> 1],
   [year |-> 2015, month |-> 10], [year |-> 2015, month |-> 4],
   [year |-> 2014, month |-> 10], [year |-> 2014, month |-> 4],
   [year |-> 2013, month |-> 5], [year |-> 2013, month |-> 4],
   [year |-> 2013, month |-> 3], [year |-> 2012, month |-> 4],
   [year |-> 2010, month |-> 4], [year |-> 2006, month |-> 4]}
ReviewInputs ==
  {[stars |-> st, createdAt |-> c] : st \in ReviewStars, c \in ReviewDates}

InitReview == InitFor({}, SeqsUpTo(ReviewInputs, MaxSeq))

NextReview == score

SpecReview == InitReview /\ [][NextReview]_vars

(***************************************************************************)
(* SpecMonths: getMonthsSinceReviewDate called on its own.  A date is the  *)
(* calendar fields of a Date object: the year, the month as getMonth()     *)
(* reads it (0..11) and the day of the month.                              *)
(***************************************************************************)
MonthDays == {1, 28}
MonthTodays ==
  {[year |-> y, month |-> m, day |-> d] :
     y \in {2015, 2016}, m \in {0, 1, 5, 11}, d \in MonthDays}
MonthDates ==
  {[year |-> y, month |-> m, day |-> d] :
     y \in 2014..2017, m \in 0..11, d \in MonthDays}

InitMonths ==
  /\ now \in MonthTodays
  /\ Idle({})
  /\ scoreIn = <<>>
  /\ scoreOut = <<>>
  /\ dateIn \in {<<d>> : d \in MonthDates}
  /\ monthsOut = <<>>
  /\ NoRequest

months ==
  /\ dateIn # <<>>
  /\ monthsOut = <<>>
  /\ monthsOut' = <<getMonthsSinceReviewDate(dateIn[1], now)>>
  /\ UNCHANGED <<now, this, business, promise, domain, page, pages, inflight,
                 sent, replies, calls, scoreIn, scoreOut, dateIn, sendVars>>

NextMonths == months

SpecMonths == InitMonths /\ [][NextMonths]_vars

(***************************************************************************)
(* SpecAnyPayload: one invocation, where the transport also delivers       *)
(* well-formed JSON without the fields the handlers read: a business-info  *)
(* body without numberOfReviews, a page body without reviews.              *)
(***************************************************************************)
AnyInfoBodies ==
  {[numberOfReviews |-> [total |-> t]] : t \in {0, 50, 101, 301}}
    \cup {[displayName |-> "Shop"]}
AnyPageBodies == PageBodies \cup {[links |-> <<>>]}

NextAnyPayload ==
  \/ \E i \in DOMAIN promise, d \in Domains : handler(i, d)
  \/ \E i \in DOMAIN promise, body \in FindBodies : findResolved(i, body)
  \/ \E i \in DOMAIN promise, e \in Errors : findRejected(i, e)
  \/ \E i \in DOMAIN promise, body \in AnyInfoBodies : infoResolved(i, body)
  \/ \E i \in DOMAIN promise, e \in Errors : infoRejected(i, e)
  \/ \E i \in DOMAIN promise, data \in AnyPageBodies : pageResolved(i, data)
  \/ \E i \in DOMAIN promise, e \in Errors : pageRejected(i, e)

SpecAnyPayload == Init /\ [][NextAnyPayload]_vars

(***************************************************************************)
(* sendTrustpilotRequest on its own.  Text is a sequence of JSON tokens:   *)
(* "{", "}", ",", a member (named by its key) and "space", a run of white  *)
(* space.  A chunk is a piece of text with its length in characters.       *)
(***************************************************************************)
MemberValue == [id |-> "bu-1", errorCode |-> 1001, message |-> "Not found"]

\* the members after "{" or ","; <<>> when the text is not JSON, else <<object>>
RECURSIVE parseMembers(_, _)
parseMembers(text, obj) ==
  IF Len(text) >= 2 /\ text[1] \in DOMAIN MemberValue
  THEN LET o    == Put(obj, text[1], MemberValue[text[1]])
           rest == Tail(text)
       IN  IF rest = <<"}">> THEN <<o>>
           ELSE IF rest[1] = "," THEN parseMembers(Tail(rest), o)
           ELSE <<>>
  ELSE <<>>

\* JSON.parse of an object: <<>> when it throws a SyntaxError, else <<value>>
JSONparse(text) ==
  LET t == SelectSeq(text, LAMBDA x : x # "space")
  IN  IF t = <<"{", "}">> THEN <<EmptyObject>>
      ELSE IF Len(t) >= 3 /\ t[1] = "{" THEN parseMembers(Tail(t), EmptyObject)
      ELSE <<>>

\* if (body.errorCode)
hasErrorCode(b) == "errorCode" \in DOMAIN b /\ b.errorCode # 0

\* new Error(body.message).message
errorMessage(b) == IF "message" \in DOMAIN b THEN b.message ELSE ""

\* body += chunk
appendChunk(b, chunk) ==
  [text |-> b.text \o chunk.text, length |-> b.length + chunk.length]

\* the flag telling only whether the body is too large now
tooLargeNow(flag, b) == b.length > MAX_RESPONSE_SIZE

\* the response handler's test after body += chunk, and the flag it leaves
tooLarge(flag, b) == IF b.length > MAX_RESPONSE_SIZE THEN TRUE ELSE flag

\* the calls of the caller's resolve and reject
resolveCall(value) == [error |-> <<>>, body |-> <<value>>]
rejectCall(error) == [error |-> <<error>>, body |-> <<>>]

\* what the 'end' handler calls for a body and a flag
endCall(b, flag) ==
  IF flag THEN rejectCall("Request entity too large.")
  ELSE LET parsed == JSONparse(b.text)
       IN  IF parsed = <<>> THEN rejectCall("SyntaxError")
           ELSE IF hasErrorCode(parsed[1]) THEN rejectCall(errorMessage(parsed[1]))
           ELSE resolveCall(parsed[1])

\* https.request(options, ...), request.on('error', ...), request.end()
sendTrustpilotRequest ==
  /\ stream = "none"
  /\ stream' = "sent"
  /\ UNCHANGED <<now, this, business, promise, domain, page, pages, inflight,
                 sent, replies, calls, scoreIn, scoreOut, monthsVars,
                 responseBody, responseTooLarge, received, settles>>

\* the response callback: body = '', responseTooLarge = false
onResponse ==
  /\ stream = "sent"
  /\ stream' = "open"
  /\ responseBody' = [text |-> <<>>, length |-> 0]
  /\ responseTooLarge' = FALSE
  /\ UNCHANGED <<now, this, business, promise, domain, page, pages, inflight,
                 sent, replies, calls, scoreIn, scoreOut, monthsVars,
                 received, settles>>

MaxChunks == 4

\* response.on('data', ...)
onData(chunk) ==
  /\ stream = "open"
  /\ Len(received) < MaxChunks
  /\ LET b == appendChunk(responseBody, chunk)
     IN  /\ responseTooLarge' = tooLarge(responseTooLarge, b)
         /\ responseBody' = IF b.length > MAX_RESPONSE_SIZE
                            THEN [text |-> <<>>, length |-> 0] ELSE b
  /\ received' = Append(received, chunk)
  /\ UNCHANGED <<now, this, business, promise, domain, page, pages, inflight,
                 sent, replies, calls, scoreIn, scoreOut, monthsVars,
                 stream, settles>>

\* response.on('end', ...)
onEnd ==
  /\ stream = "open"
  /\ stream' = "ended"
  /\ settles' = Append(settles, endCall(responseBody, responseTooLarge))
  /\ UNCHANGED <<now, this, business, promise, domain, page, pages, inflight,
                 sent, replies, calls, scoreIn, scoreOut, monthsVars,
                 responseBody, responseTooLarge, received>>

\* request.on('error', ...): the request fails before the response has ended
onError(error) ==
  /\ stream \in {"sent", "open"}
  /\ stream' = "failed"
  /\ settles' = Append(settles, rejectCall(error))
  /\ UNCHANGED <<now, this, business, promise, domain, page, pages, inflight,
                 sent, replies, calls, scoreIn, scoreOut, monthsVars,
                 responseBody, responseTooLarge, received>>

\* the pieces a response arrives in; the padding and a whole object make up
\* MAX_RESPONSE_SIZE characters exactly
Chunks ==
  {[text |-> <<"{">>, length |-> 1],
   [text |-> <<"}">>, length |-> 1],
   [text |-> <<"id">>, length |-> 11],
   [text |-> <<"errorCode", ",", "message">>, length |-> 38],
   [text |-> <<"{", "id", "}">>, length |-> 13],
   [text |-> <<"space">>, length |-> MAX_RESPONSE_SIZE - 13]}
RequestErrors == {"socket hang up"}

NextSend ==
  \/ sendTrustpilotRequest
  \/ onResponse
  \/ \E chunk \in Chunks : onData(chunk)
  \/ onEnd
  \/ \E error \in RequestErrors : onError(error)

SpecSend == Init /\ [][NextSend]_vars

(***************************************************************************)
(* SpecPages: one invocation, every reported total from 0 to MaxTotal and  *)
(* some far above the cap.                                                 *)
(***************************************************************************)
MaxTotal == 310

PagesTotals == 0..MaxTotal \cup {1000, 10000, 1000000}
PagesInfoBodies == {[numberOfReviews |-> [total |-> t]] : t \in PagesTotals}
PagesPageBodies ==
  {[reviews |-> q] :
     q \in SeqsUpTo({[stars |-> 5, createdAt |-> [year |-> 2016, month |-> 2]]},
                    MaxPageLen)}

NextPages ==
  \/ \E i \in DOMAIN promise : handler(i, "shop.example")
  \/ \E i \in DOMAIN promise : findResolved(i, [id |-> "bu-1"])
  \/ \E i \in DOMAIN promise : findRejected(i, "socket hang up")
  \/ \E i \in DOMAIN promise, body \in PagesInfoBodies : infoResolved(i, body)
  \/ \E i \in DOMAIN promise : infoRejected(i, "socket hang up")
  \/ \E i \in DOMAIN promise, data \in PagesPageBodies : pageResolved(i, data)
  \/ \E i \in DOMAIN promise : pageRejected(i, "socket hang up")

SpecPages == Init /\ [][NextPages]_vars

(***************************************************************************)
(* What the properties read.                                               *)
(***************************************************************************)
IsPageRequest(r) == r.endpoint = "BUSINESS_GET_REVIEWS"
IsPageReply(c) == c.request.endpoint = "BUSINESS_GET_REVIEWS"
IsResolvedPage(c) == IsPageReply(c) /\ c.error = <<>>
IsRejection(c) == c.error # <<>>

PageRequests(i) == SelectSeq(sent[i], IsPageRequest)
ResolvedPages(i) == SelectSeq(replies[i], IsResolvedPage)
InFlightOf(i) == {r \in inflight : r.inv = i}

\* this.business of the invocation's TrustScore object ({} before there is one)
Biz(i) == IF this[i] \in DOMAIN business THEN business[this[i]] ELSE EmptyObject

\* the review lists of a sequence of resolved page replies, concatenated
RECURSIVE FetchedReviews(_)
FetchedReviews(cs) ==
  IF cs = <<>> THEN <<>> ELSE cs[1].body[1].reviews \o FetchedReviews(Tail(cs))

RECURSIVE SumOfPageSizes(_)
SumOfPageSizes(cs) ==
  IF cs = <<>> THEN 0 ELSE Len(cs[1].body[1].reviews) + SumOfPageSizes(Tail(cs))

Occurrences(q, x) == Cardinality({j \in 1..Len(q) : q[j] = x})

RECURSIVE OccurrencesInPages(_, _)
OccurrencesInPages(cs, x) ==
  IF cs = <<>> THEN 0
  ELSE Occurrences(cs[1].body[1].reviews, x) + OccurrencesInPages(Tail(cs), x)

IsPrefix(p, q) == Len(p) <= Len(q) /\ SubSeq(q, 1, Len(p)) = p

Max(x, y) == IF x > y THEN x ELSE y

CeilDiv(t, d) == (t + d - 1) \div d

(***************************************************************************)
(* The properties.                                                         *)
(***************************************************************************)

\* C1: review pages are fetched strictly one after another.  At most one
\* request of an invocation is in flight; the j-th page request asks for page
\* j (so pages go 1, 2, ... with none repeated); the replies to page requests
\* answer them in that order and a request for page k+1 exists only when page
\* k has resolved; no page beyond the page count n (or beyond 1 when n = 0)
\* is requested; and a run that resolves with n >= 1 has requested exactly
\* pages 1..n.
C1_PagesStrictlySequential ==
  \A i \in DOMAIN promise :
    LET P  == PageRequests(i)
        Rp == SelectSeq(replies[i], IsPageReply)
    IN  /\ Cardinality(InFlightOf(i)) <= 1
        /\ \A j \in 1..Len(P) : P[j].page = j
        /\ Len(Rp) <= Len(P)
        /\ \A j \in 1..Len(Rp) : Rp[j].request = P[j]
        /\ Len(P) <= Len(ResolvedPages(i)) + 1
        /\ Len(P) <= Max(pages[i], 1)
        /\ (promise[i] = "resolved" /\ pages[i] >= 1) => Len(P) = pages[i]

C1_Witness ==
  \E i \in DOMAIN promise :
    /\ promise[i] = "resolved"
    /\ pages[i] = 3
    /\ Len(PageRequests(i)) = 3
    /\ Len(ResolvedPages(i)) = 3

\* C2: when the request for page k fails, nothing more happens in the
\* invocation: the failure is its last reply, no request for a page above k
\* was or is issued, nothing is in flight, and the callback was called exactly
\* once, with the error the failed request reported and no result.
C2_PageFailureAborts ==
  \A i \in DOMAIN promise :
    \A j \in 1..Len(replies[i]) :
      LET c == replies[i][j]
      IN  (IsPageReply(c) /\ IsRejection(c)) =>
            /\ j = Len(replies[i])
            /\ \A q \in 1..Len(sent[i]) : sent[i][q].page <= c.request.page
            /\ InFlightOf(i) = {}
            /\ promise[i] = "rejected"
            /\ calls[i] = <<[error |-> c.error, result |-> <<>>]>>

C2_Witness ==
  \E i \in DOMAIN promise :
    /\ Len(replies[i]) = 4
    /\ IsPageReply(replies[i][4]) /\ IsRejection(replies[i][4])
    /\ replies[i][4].request.page = 2
    /\ pages[i] = 3
    /\ Biz(i).reviews # <<>>
    /\ promise[i] = "rejected"

\* C3: for a reported total of at most 300 the page count is
\* ceil(total / 100); every page request asks for 100 reviews per page; and a
\* run with 1 <= total <= 300 in which every fetch succeeded has issued
\* exactly ceil(total / 100) page requests.
C3_PageCountUpToCap ==
  \A i \in DOMAIN promise :
    LET b == Biz(i)
    IN  ("totalReviews" \in DOMAIN b /\ b.totalReviews <= MAX_REVIEW_AMOUNT) =>
          /\ pages[i] = CeilDiv(b.totalReviews, 100)
          /\ \A j \in 1..Len(PageRequests(i)) : PageRequests(i)[j].perPage = 100
          /\ (promise[i] = "resolved" /\ b.totalReviews >= 1) =>
                Len(PageRequests(i)) = CeilDiv(b.totalReviews, 100)

C3_Witness ==
  \E i \in DOMAIN promise :
    /\ promise[i] = "resolved"
    /\ Biz(i).totalReviews = 250
    /\ Len(PageRequests(i)) = 3

\* C4: for a reported total above 300 the page count is exactly 3 however
\* large the total; no request for page 4 or higher is ever issued; and a run
\* in which every fetch succeeded has requested pages 1, 2, 3 and no more.
C4_PageCountAboveCap ==
  \A i \in DOMAIN promise :
    LET b == Biz(i)
        P == PageRequests(i)
    IN  ("totalReviews" \in DOMAIN b /\ b.totalReviews > MAX_REVIEW_AMOUNT) =>
          /\ pages[i] = 3
          /\ \A j \in 1..Len(P) : P[j].page <= 3
          /\ promise[i] = "resolved" =>
                /\ Len(P) = 3
                /\ \A j \in 1..3 : P[j].page = j

C4_Witness ==
  \E i \in DOMAIN promise :
    /\ promise[i] = "resolved"
    /\ Biz(i).totalReviews = 10000
    /\ Len(PageRequests(i)) = 3

\* C5: from the reset in getMaximumBusinessReviews on, business.reviews is
\* the concatenation, in fetch order, of the review lists of the page
\* requests resolved so far: its length is the sum of their sizes and every
\* review occurs in it as often as in those pages, never more.  And a step
\* never shrinks or rewrites it: it stays as it is or grows at its end by the
\* one page just resolved.
C5_ReviewsInState ==
  \A i \in DOMAIN promise :
    LET b == Biz(i)
    IN  "reviews" \in DOMAIN b =>
          /\ b.reviews = FetchedReviews(ResolvedPages(i))
          /\ Len(b.reviews) = SumOfPageSizes(ResolvedPages(i))
          /\ \A j \in 1..Len(b.reviews) :
               Occurrences(b.reviews, b.reviews[j])
                 = OccurrencesInPages(ResolvedPages(i), b.reviews[j])

C5_ReviewsGrow ==
  \A i \in DOMAIN promise :
    "reviews" \in DOMAIN Biz(i) =>
      /\ "reviews" \in DOMAIN Biz(i)'
      /\ IsPrefix(Biz(i).reviews, Biz(i)'.reviews)
      /\ \/ /\ ResolvedPages(i)' = ResolvedPages(i)
            /\ Biz(i)'.reviews = Biz(i).reviews
         \/ /\ Len(ResolvedPages(i)') = Len(ResolvedPages(i)) + 1
            /\ Biz(i)'.reviews =
                 Biz(i).reviews
                   \o ResolvedPages(i)'[Len(ResolvedPages(i)')].body[1].reviews

C5_ReviewsAreTheFetchedPages == [](C5_ReviewsInState) /\ [][C5_ReviewsGrow]_vars

C5_Witness ==
  \E i \in DOMAIN promise :
    /\ promise[i] = "resolved"
    /\ Len(ResolvedPages(i)) = 3
    /\ Len(Biz(i).reviews) = 2
    /\ Biz(i).reviews[1] # Biz(i).reviews[2]

\* C6: a failed find request or business-info request ends the invocation.
\* The failure is its last reply and the failed request the last one it
\* sent; after a failed find no business-info request and after either no
\* review-page request was issued; nothing is in flight; and the callback was
\* called exactly once, with the error the failed request reported and no
\* result.
C6_EarlyFailureShortCircuits ==
  \A i \in DOMAIN promise :
    \A j \in 1..Len(replies[i]) :
      LET c == replies[i][j]
      IN  (IsRejection(c) /\ ~IsPageReply(c)) =>
            /\ j = Len(replies[i])
            /\ Len(sent[i]) = j
            /\ sent[i][j] = c.request
            /\ \A q \in 1..Len(sent[i]) : ~IsPageRequest(sent[i][q])
            /\ c.request.endpoint = "FIND_BUSINESS_UNIT_ID" =>
                 \A q \in 1..Len(sent[i]) : sent[i][q].endpoint # "BUSINESS_INFO"
            /\ InFlightOf(i) = {}
            /\ promise[i] = "rejected"
            /\ calls[i] = <<[error |-> c.error, result |-> <<>>]>>

C6_Witness ==
  \E i \in DOMAIN promise :
    /\ Len(replies[i]) = 2
    /\ replies[i][1].error = <<>>
    /\ replies[i][2].request.endpoint = "BUSINESS_INFO"
    /\ replies[i][2].error = <<"socket hang up">>
    /\ calls[i] # <<>>

\* C7: the stages of one invocation follow each other without overlap.  Its
\* requests are the find request, then the business-info request, then review
\* pages, at most one in flight; the business-info request exists only once
\* the find request has resolved and carries the id that reply gave; the first
\* page request exists only once the business-info reply has set totalReviews;
\* and a result is delivered only when every request sent has resolved and
\* nothing is in flight, with the id of the find reply, the domain the caller
\* passed, and the score of all the pages fetched.
C7_StagesInOrder ==
  \A i \in DOMAIN promise :
    LET S  == sent[i]
        Rp == replies[i]
    IN  /\ Cardinality(InFlightOf(i)) <= 1
        /\ Len(Rp) <= Len(S)
        /\ \A j \in 1..Len(Rp) : Rp[j].request = S[j]
        /\ \A j \in 1..Len(S) :
             S[j].endpoint = (IF j = 1 THEN "FIND_BUSINESS_UNIT_ID"
                              ELSE IF j = 2 THEN "BUSINESS_INFO"
                              ELSE "BUSINESS_GET_REVIEWS")
        /\ \A j \in 2..Len(S) : Len(Rp) >= j - 1 /\ Rp[j - 1].error = <<>>
        /\ Len(S) >= 1 => S[1].name = domain[i]
        /\ Len(S) >= 2 => S[2].businessUnitId = Rp[1].body[1].id
        /\ Len(S) >= 3 =>
             /\ "totalReviews" \in DOMAIN Biz(i)
             /\ Biz(i).totalReviews = Rp[2].body[1].numberOfReviews.total
        /\ \A n \in 1..Len(calls[i]) :
             calls[i][n].result # <<>> =>
               /\ Len(S) >= 3
               /\ Len(Rp) = Len(S)
               /\ Rp[Len(Rp)].error = <<>>
               /\ InFlightOf(i) = {}
               /\ calls[i][n].result[1] =
                    [id |-> Rp[1].body[1].id,
                     domain |-> domain[i],
                     trustScore |->
                       calculateScore(FetchedReviews(ResolvedPages(i)), now)]

C7_Witness ==
  \E i \in DOMAIN promise :
    /\ Len(calls[i]) = 1
    /\ calls[i][1].result # <<>>
    /\ calls[i][1].result[1].id = "bu-2"
    /\ calls[i][1].result[1].domain = "bank.example"
    /\ Len(sent[i]) = 5
    /\ Len(Biz(i).reviews) = 3

\* What an invocation holds and reports according to its own replies alone:
\* the business object those replies build, and the callback calls they lead
\* to when no other invocation exists.
OwnBusiness(i) ==
  LET Rp == replies[i]
      b0 == EmptyObject
      b1 == IF Len(Rp) >= 1 /\ Rp[1].error = <<>>
            THEN Put(b0, "id", Rp[1].body[1].id) ELSE b0
      b2 == IF Len(Rp) >= 2 /\ Rp[2].error = <<>>
            THEN Put(Put(b1, "totalReviews", Rp[2].body[1].numberOfReviews.total),
                     "reviews", FetchedReviews(ResolvedPages(i)))
            ELSE b1
  IN  b2

OwnCalls(i) ==
  LET Rp == replies[i]
      n  == Len(Rp)
  IN  IF n >= 1 /\ IsRejection(Rp[n])
      THEN <<[error |-> Rp[n].error, result |-> <<>>]>>
      ELSE IF n >= 3
              /\ Len(ResolvedPages(i))
                   >= Max(1, pageCount(Rp[2].body[1].numberOfReviews.total))
      THEN <<[error |-> <<>>,
              result |-> <<[id |-> Rp[1].body[1].id,
                            domain |-> sent[i][1].name,
                            trustScore |->
                              calculateScore(FetchedReviews(ResolvedPages(i)),
                                             now)]>>]>>
      ELSE <<>>

\* C10: two invocations running at once share nothing.  Each has a TrustScore
\* object of its own; under every interleaving of the transport's replies the
\* business object of an invocation is the one its own replies build, its
\* requests carry the id of its own find reply, and what it reports (the id
\* and trustScore, or the error) is what its own replies lead to when it runs
\* alone.
C10_InvocationsIndependent ==
  \A i \in DOMAIN promise :
    /\ \A j \in DOMAIN promise \ {i} : this[i] = "none" \/ this[i] # this[j]
    /\ this[i] # "none" => Biz(i) = OwnBusiness(i)
    /\ \A q \in 2..Len(sent[i]) :
         sent[i][q].businessUnitId = replies[i][1].body[1].id
    /\ calls[i] = OwnCalls(i)

C10_Witness ==
  /\ promise["a"] = "resolved" /\ promise["b"] = "resolved"
  /\ Len(ResolvedPages("a")) = 2 /\ Len(ResolvedPages("b")) = 2
  /\ calls["a"][1].result[1].id # calls["b"][1].result[1].id
  /\ calls["a"][1].result[1].trustScore # calls["b"][1].result[1].trustScore

(***************************************************************************)
(* Exact arithmetic, for stating what a score is meant to be: non-negative *)
(* rationals n / d.                                                        *)
(***************************************************************************)
R(k) == [n |-> BFromInt(k), d |-> <<1>>]
RAdd(x, y) == [n |-> BAdd(BMul(x.n, y.d), BMul(y.n, x.d)), d |-> BMul(x.d, y.d)]
RSub(x, y) == [n |-> BSub(BMul(x.n, y.d), BMul(y.n, x.d)), d |-> BMul(x.d, y.d)]
RMul(x, y) == [n |-> BMul(x.n, y.n), d |-> BMul(x.d, y.d)]
RDiv(x, y) == [n |-> BMul(x.n, y.d), d |-> BMul(x.d, y.n)]
RLe(x, y) == BCmp(BMul(x.n, y.d), BMul(y.n, x.d)) <= 0
RMin(x, y) == IF RLe(x, y) THEN x ELSE y
RFloor(x) == BToInt(BDivMod(x.n, x.d).q)

AgeMonths(review, today) == getMonthsSinceReviewDate(review.createdAt, today)

\* reviewScore of a review with the given stars and ageMonths >= 1
ExactReviewScore(stars, ageMonths) ==
  LET ageModifier    == IF ageMonths >= 36 THEN R(0)
                        ELSE RSub(R(1), RDiv(R(ageMonths), R(36)))
      exactRating    == RMin(R(2),
                             RAdd(RAdd(RDiv(R(stars), R(5)), ageModifier),
                                  RDiv(RDiv(R(stars), R(ageMonths * 2)), R(5))))
      exactStars     == IF ageMonths > 36
                        THEN RDiv(RMul(R(stars), R(36)), R(ageMonths))
                        ELSE R(stars)
  IN  RAdd(exactStars, RDiv(RMul(exactStars, exactRating), R(2)))

RECURSIVE ExactSum(_, _)
ExactSum(reviews, today) ==
  IF reviews = <<>> THEN R(0)
  ELSE RAdd(ExactReviewScore(reviews[1].stars, AgeMonths(reviews[1], today)),
            ExactSum(Tail(reviews), today))

\* ten times the mean, rounded half up to an integer: the score in tenths
ExactTenths(reviews, today) ==
  RFloor(RAdd(RMul(RDiv(ExactSum(reviews, today), R(Len(reviews))), R(10)),
              RDiv(R(1), R(2))))

Reorderings(q) ==
  {[j \in 1..Len(q) |-> q[f[j]]] : f \in Permutations(1..Len(q))}

\* C8: for a non-empty review sequence with stars in 0..5 and ageMonths >= 1,
\* calculateScore returns the mean of reviewScore rounded half up to one
\* decimal (the Number written with that one decimal), reviewScore being
\* effectiveStars + effectiveStars * ratingScore / 2 as the claim defines them.
C8_ScoreIsRoundedMean ==
  (/\ scoreOut # <<>>
   /\ scoreIn # <<>>
   /\ \A j \in 1..Len(scoreIn) :
        scoreIn[j].stars \in 0..5 /\ AgeMonths(scoreIn[j], now) >= 1)
  => scoreOut[1] = FDiv(F(ExactTenths(scoreIn, now)), F(10))

\* C9: calculateScore returns the same score for every reordering of a
\* non-empty review sequence.
C9_ScoreIgnoresOrder ==
  (scoreOut # <<>> /\ scoreIn # <<>>)
  => \A q \in Reorderings(scoreIn) : calculateScore(q, now) = scoreOut[1]

(***************************************************************************)
(* C11: when the retrieval succeeds with no review at all, getTrustScore   *)
(* does not resolve with a trustScore that is not a number (0 / 0): every  *)
(* result handed to the callback after an empty retrieval carries a        *)
(* numeric score.                                                          *)
(***************************************************************************)
C11_EmptyRetrievalHasNumericScore ==
  \A i \in DOMAIN promise :
    (promise[i] = "resolved" /\ FetchedReviews(ResolvedPages(i)) = <<>>)
    => \A j \in 1..Len(calls[i]) :
         calls[i][j].result # <<>> => calls[i][j].result[1].trustScore.k = "num"

(***************************************************************************)
(* C12: a review of age 0 months (zero denominator in ageScore), whatever  *)
(* its stars in 0..5, does not make the score unbounded or NaN: the score  *)
(* of a sequence containing such a review is a finite number.              *)
(***************************************************************************)
C12_ZeroAgeScoreIsFinite ==
  (/\ scoreOut # <<>>
   /\ \E j \in 1..Len(scoreIn) :
        scoreIn[j].stars \in 0..5 /\ AgeMonths(scoreIn[j], now) = 0)
  => scoreOut[1].k = "num"

(***************************************************************************)
(* C14 as stated: for every review with stars in 0..5 and age >= 1 month,  *)
(* the addend reviewScore is at most 1.5 x effectiveStars.                 *)
(***************************************************************************)
C14_AddendAtMostOneAndAHalf ==
  scoreOut # <<>> =>
    \A j \in 1..Len(scoreIn) :
      (scoreIn[j].stars \in 0..5 /\ AgeMonths(scoreIn[j], now) >= 1)
      => FCmp(reviewScore(scoreIn[j], now),
              FMul(FDiv(F(3), F(2)), effectiveStars(scoreIn[j], now))) <= 0

(***************************************************************************)
(* C14 amended: for every review with stars in 0..5 and age >= 1 month,    *)
(* ratingScore is at most 2 and the addend reviewScore is at most          *)
(* 2 x effectiveStars.                                                     *)
(***************************************************************************)
C14_AddendAtMostTwice ==
  scoreOut # <<>> =>
    \A j \in 1..Len(scoreIn) :
      (scoreIn[j].stars \in 0..5 /\ AgeMonths(scoreIn[j], now) >= 1)
      => /\ FCmp(ratingScore(scoreIn[j], now), F(2)) <= 0
         /\ FCmp(reviewScore(scoreIn[j], now),
                 FMul(F(2), effectiveStars(scoreIn[j], now))) <= 0

\* a scored review whose addend is exactly twice its effective stars
C14_Witness ==
  /\ scoreOut # <<>>
  /\ \E j \in 1..Len(scoreIn) :
       /\ scoreIn[j].stars = 5 /\ AgeMonths(scoreIn[j], now) = 1
       /\ reviewScore(scoreIn[j], now) = F(10)
       /\ effectiveStars(scoreIn[j], now) = F(5)

(***************************************************************************)
(* C13: when the reported total is 0 the page count is 0, and still        *)
(* exactly one review-page request, for page 1, is issued; once it         *)
(* resolves the retrieval resolves and page 2 is never requested.          *)
(***************************************************************************)
ReportedTotalIsZero(i) ==
  \E j \in 1..Len(replies[i]) :
    /\ replies[i][j].request.endpoint = "BUSINESS_INFO"
    /\ replies[i][j].body # <<>>
    /\ replies[i][j].body[1].numberOfReviews.total = 0

C13_ZeroPagesStillFetchesPageOne ==
  \A i \in DOMAIN promise :
    ReportedTotalIsZero(i)
    => /\ pages[i] = 0
       /\ Len(PageRequests(i)) = 1
       /\ PageRequests(i)[1].page = 1
       /\ (ResolvedPages(i) # <<>>
           => /\ promise[i] = "resolved"
              /\ InFlightOf(i) = {}
              /\ Len(calls[i]) = 1 /\ calls[i][1].error = <<>>)

\* a run with total 0 that fetched page 1 and resolved
C13_Witness ==
  \E i \in DOMAIN promise :
    /\ ReportedTotalIsZero(i)
    /\ pages[i] = 0
    /\ promise[i] = "resolved"
    /\ Len(ResolvedPages(i)) = 1

(***************************************************************************)
(* Calendar relations between the review's date and today.                 *)
(***************************************************************************)
InPreviousMonth(date, today) ==
  \/ date.year = today.year /\ date.month = today.month - 1
  \/ today.month = 0 /\ date.year = today.year - 1 /\ date.month = 11

InCurrentMonth(date, today) ==
  date.year = today.year /\ date.month = today.month

InFuture(date, today) ==
  \/ date.year > today.year
  \/ date.year = today.year /\ date.month > today.month
  \/ date.year = today.year /\ date.month = today.month /\ date.day > today.day

(***************************************************************************)
(* C15 as stated: getMonthsSinceReviewDate returns 1 for every review      *)
(* dated in the calendar month before the current one (December of the     *)
(* year before when it is January), whatever the day of the month.         *)
(***************************************************************************)
C15_PreviousMonthIsOne ==
  (monthsOut # <<>> /\ InPreviousMonth(dateIn[1], now)) => monthsOut[1] = 1

(***************************************************************************)
(* C15 amended: getMonthsSinceReviewDate returns 0 for every review dated  *)
(* in the calendar month before the current one (December of the year      *)
(* before when it is January), whatever the day of the month.              *)
(***************************************************************************)
C15_PreviousMonthIsZero ==
  (monthsOut # <<>> /\ InPreviousMonth(dateIn[1], now)) => monthsOut[1] = 0

\* in January, a review of the 28th of last December has age 0
C15_Witness ==
  /\ monthsOut = <<0>>
  /\ now.month = 0
  /\ dateIn[1] = [year |-> now.year - 1, month |-> 11, day |-> 28]

(***************************************************************************)
(* C16: getMonthsSinceReviewDate returns                                   *)
(* max(0, yearsDiff * 12 - (reviewMonth + 1) + currentMonth) with months   *)
(* counted from 0: never a negative number, and 0 for every review dated   *)
(* in the current calendar month or in the future.                         *)
(***************************************************************************)
C16_MonthsFormula ==
  monthsOut # <<>> =>
    LET date      == dateIn[1]
        yearsDiff == now.year - date.year
    IN  /\ monthsOut[1] = Max(0, yearsDiff * 12 - (date.month + 1) + now.month)
        /\ monthsOut[1] >= 0
        /\ (InCurrentMonth(date, now) \/ InFuture(date, now)) => monthsOut[1] = 0

\* a review dated next year has age 0
C16_Witness ==
  /\ monthsOut = <<0>>
  /\ dateIn[1].year = now.year + 1

(***************************************************************************)
(* C17: when every transport request has completed, with a parsed payload  *)
(* or an error, the invocation has settled, exactly once, with a result or *)
(* an error: an invocation that is still pending has a request in flight,  *)
(* and the callback is called once when the promise settles, whatever      *)
(* payload the transport delivered.                                        *)
(***************************************************************************)
C17_SettlesOnceRequestsComplete ==
  \A i \in DOMAIN promise :
    /\ promise[i] = "pending" => InFlightOf(i) # {}
    /\ Len(calls[i]) <= 1
    /\ promise[i] \in {"resolved", "rejected"} <=> Len(calls[i]) = 1

(***************************************************************************)
(* What a response was as a whole: the characters and the text received.   *)
(***************************************************************************)
RECURSIVE ReceivedLength(_)
ReceivedLength(cs) ==
  IF cs = <<>> THEN 0 ELSE Head(cs).length + ReceivedLength(Tail(cs))

RECURSIVE ReceivedText(_)
ReceivedText(cs) ==
  IF cs = <<>> THEN <<>> ELSE Head(cs).text \o ReceivedText(Tail(cs))

====
